---- MODULE Spec2Model ----
(***************************************************************************)
(* find_bpdu.py: CommandHandler.run drives one Device, which executes one  *)
(* CLI command on a switch and folds the output lines into a table         *)
(* port label -> number of received BPDUs.                                 *)
(*                                                                         *)
(* Python strings are modelled as sequences of one-character strings, so   *)
(* that strip, split and the two regular expressions are computed on the   *)
(* characters as the code computes them.                                   *)
(***************************************************************************)
EXTENDS Integers, Sequences, FiniteSets, TLC

VARIABLES
    pc,                  \* position of CommandHandler.run / Device.__call__
    host_address,        \* CommandHandler.host_address
    username,            \* CommandHandler.username
    password,            \* CommandHandler.password
    port_counters,       \* CommandHandler.port_counters (dict or None)
    device,              \* Device.device (None before the Device is built)
    sent_command,        \* the command string handed to send_command
    command_output,      \* the text send_command returned
    cli_command_result,  \* Device.cli_command_result: lines not yet consumed
    _port,               \* local of command_output_processing
    _counter,            \* local of command_output_processing
    _result,             \* local of command_output_processing
    cop_calls,           \* number of command_output_processing invocations
    stdout,              \* lines printed so far
    raised,              \* exception that left run(), "" when none
    other_device,        \* a second Device object, not the one being called
    lifecycle,           \* what has been called on the Device so far
    call                 \* the latest command_output_processing call

vars ==
    << pc, host_address, username, password, port_counters, device,
       sent_command, command_output, cli_command_result, _port, _counter,
       _result, cop_calls, stdout, raised, other_device, lifecycle, call >>

----------------------------------------------------------------------------
(* Bounds of the model *)

\* lines in one command output, narrow sample
MaxLines == 5

\* lines in one command output, wide sample
MaxWideLines == 2

----------------------------------------------------------------------------
(* Python values *)

None == [tag |-> "None"]

Dict(t) == [tag |-> "dict", items |-> t]

EmptyTable == << >>

Min(S) == CHOOSE x \in S : \A y \in S : x <= y

Max(S) == CHOOSE x \in S : \A y \in S : x >= y

\* str.strip() and str.split() treat these as whitespace
Whitespace == {" ", "\t", "\r"}

Digits == {"0", "1", "2", "3", "4", "5", "6", "7", "8", "9"}

DigitValue ==
    [c \in Digits |->
        CASE c = "0" -> 0 [] c = "1" -> 1 [] c = "2" -> 2 [] c = "3" -> 3
          [] c = "4" -> 4 [] c = "5" -> 5 [] c = "6" -> 6 [] c = "7" -> 7
          [] c = "8" -> 8 [] c = "9" -> 9]

\* int(s) for a string of decimal digits
RECURSIVE int(_)
int(s) ==
    IF s = << >> THEN 0
    ELSE int(SubSeq(s, 1, Len(s) - 1)) * 10 + DigitValue[s[Len(s)]]

RECURSIVE lstrip(_)
lstrip(s) ==
    IF s # << >> /\ Head(s) \in Whitespace THEN lstrip(Tail(s)) ELSE s

RECURSIVE rstrip(_)
rstrip(s) ==
    IF s # << >> /\ s[Len(s)] \in Whitespace
    THEN rstrip(SubSeq(s, 1, Len(s) - 1))
    ELSE s

\* str.strip
strip(s) == rstrip(lstrip(s))

\* text.split('\n')
RECURSIVE split_newline(_)
split_newline(text) ==
    LET nl == {i \in 1..Len(text) : text[i] = "\n"}
    IN  IF nl = {} THEN << text >>
        ELSE << SubSeq(text, 1, Min(nl) - 1) >>
             \o split_newline(SubSeq(text, Min(nl) + 1, Len(text)))

\* line.split(' ', 1): split at the first space only
split_single_space(line) ==
    LET sp == {i \in 1..Len(line) : line[i] = " "}
    IN  IF sp = {} THEN << line >>
        ELSE << SubSeq(line, 1, Min(sp) - 1),
                SubSeq(line, Min(sp) + 1, Len(line)) >>

\* line.split(maxsplit=1): at most two tokens, separated by whitespace runs
split(line) ==
    LET s  == lstrip(line)
        ws == {i \in 1..Len(s) : s[i] \in Whitespace}
    IN  IF s = << >> THEN << >>
        ELSE IF ws = {} THEN << s >>
        ELSE LET rest == lstrip(SubSeq(s, Min(ws) + 1, Len(s)))
             IN  IF rest = << >> THEN << SubSeq(s, 1, Min(ws) - 1) >>
                 ELSE << SubSeq(s, 1, Min(ws) - 1), rest >>

----------------------------------------------------------------------------
(* Module constants *)

CLI_COMMAND == "show spanning-tree detail | i forwarding|BPDU"

KW_PORT == << "P", "o", "r", "t" >>

KW_BPDU == << "B", "P", "D", "U", ":" >>

RECEIVED == << " ", "r", "e", "c", "e", "i", "v", "e", "d", " " >>

\* result of pattern.match(): a match object with its group 1, or None
Match(g) == [tag |-> "Match", group1 |-> g]

LeadingDigits(s) ==
    Max({0} \cup {n \in 1..Len(s) : \A i \in 1..n : s[i] \in Digits})

TrailingDigits(s) ==
    Max({0} \cup {n \in 1..Len(s) :
                    \A i \in (Len(s) - n + 1)..Len(s) : s[i] \in Digits})

\* re.compile(r'^\d+ \((.+)\)').match(rest): digits, one space, "(", a
\* greedy non-empty capture, ")"; text after the last ")" is not examined
PORT_REGEX_PATTERN(rest) ==
    LET d      == LeadingDigits(rest)
        closes == {k \in (d + 4)..Len(rest) : rest[k] = ")"}
    IN  IF /\ d >= 1
           /\ Len(rest) >= d + 4
           /\ rest[d + 1] = " "
           /\ rest[d + 2] = "("
           /\ closes # {}
        THEN Match(SubSeq(rest, d + 3, Max(closes) - 1))
        ELSE None

\* a pattern that captures the first number of the remainder
BPDU_REGEX_FIRST_NUMBER(rest) ==
    LET t     == TrailingDigits(rest)
        n     == Len(rest)
        first == Min({i \in 1..n : rest[i] \in Digits})
    IN  IF /\ t >= 1
           /\ n >= t + Len(RECEIVED) + 1
           /\ SubSeq(rest, n - t - Len(RECEIVED) + 1, n - t) = RECEIVED
        THEN Match(SubSeq(rest, first,
                          first - 1 + LeadingDigits(SubSeq(rest, first, n))))
        ELSE None

\* re.compile(r'^.+ received (\d+)$').match(rest): some text, " received ",
\* digits up to the end of the line
BPDU_REGEX_PATTERN(rest) ==
    LET t == TrailingDigits(rest)
        n == Len(rest)
    IN  IF /\ t >= 1
           /\ n >= t + Len(RECEIVED) + 1
           /\ SubSeq(rest, n - t - Len(RECEIVED) + 1, n - t) = RECEIVED
        THEN Match(SubSeq(rest, n - t + 1, n))
        ELSE None

----------------------------------------------------------------------------
(* Device.command_output_processing *)

\* the filter with >= 0 in place of > 0
FilterNonNegative(table) ==
    [k \in {p \in DOMAIN table : table[p] >= 0} |-> table[k]]

\* dict(filter(lambda port_counter: port_counter[1] > 0, _result.items()))
FilterPositive(table) ==
    [k \in {p \in DOMAIN table : table[p] > 0} |-> table[k]]

\* the locals of the loop, and the exception that left it ("" when none)
Locals(port, counter, result) ==
    [raised |-> "", port |-> port, counter |-> counter, result |-> result]

\* the locals are not initialised: a call goes on from the values the
\* previous call left
StaleLocals ==
    Locals(_port, _counter, _result)

\* _port = '', _counter = 0, _result = defaultdict(int)
FreshLocals ==
    Locals(<< >>, 0, EmptyTable)

\* _result[_port] = _counter: the last observation replaces the total
AddCounterOverwrites(table, port, counter) ==
    [k \in DOMAIN table \cup {port} |->
        IF k = port THEN counter ELSE table[k]]

\* _result[_port] -= _counter
AddCounterSubtracts(table, port, counter) ==
    [k \in DOMAIN table \cup {port} |->
        IF k = port
        THEN (IF port \in DOMAIN table THEN table[port] ELSE 0) - counter
        ELSE table[k]]

\* _result[_port] += _counter on a defaultdict(int)
AddCounter(table, port, counter) ==
    [k \in DOMAIN table \cup {port} |->
        IF k = port
        THEN (IF port \in DOMAIN table THEN table[port] ELSE 0) + counter
        ELSE table[k]]

\* case ['Port', rest] guarded by "if port_match": a remainder that does
\* not match is skipped
OnPortLineSkipsMismatch(locals, rest) ==
    LET port_match == PORT_REGEX_PATTERN(rest)
    IN  IF port_match = None THEN locals
        ELSE [locals EXCEPT !.port = port_match.group1]

\* case ['Port', rest] that sets _port only while it is still ''
OnPortLineKeepsFirst(locals, rest) ==
    LET port_match == PORT_REGEX_PATTERN(rest)
    IN  IF port_match = None
        THEN [locals EXCEPT !.raised = "AttributeError"]
        ELSE IF locals.port # << >> THEN locals
        ELSE [locals EXCEPT !.port = port_match.group1]

\* case ['Port', rest] that also reads _result[_port], which makes the
\* defaultdict create the entry
OnPortLineCreatesEntry(locals, rest) ==
    LET port_match == PORT_REGEX_PATTERN(rest)
    IN  IF port_match = None
        THEN [locals EXCEPT !.raised = "AttributeError"]
        ELSE [locals EXCEPT
                 !.port = port_match.group1,
                 !.result = AddCounter(locals.result, port_match.group1, 0)]

\* case ['Port', rest]: None.group(1) raises AttributeError
OnPortLine(locals, rest) ==
    LET port_match == PORT_REGEX_PATTERN(rest)
    IN  IF port_match = None
        THEN [locals EXCEPT !.raised = "AttributeError"]
        ELSE [locals EXCEPT !.port = port_match.group1]

\* case ['BPDU:', rest] guarded by "if bpdu_count_match": a remainder that
\* does not match is skipped
OnBpduLineSkipsMismatch(locals, rest) ==
    LET bpdu_count_match == BPDU_REGEX_PATTERN(rest)
    IN  IF bpdu_count_match = None THEN locals
        ELSE LET c == int(bpdu_count_match.group1)
             IN  [locals EXCEPT
                     !.counter = c,
                     !.result = AddCounter(locals.result, locals.port, c)]

\* case ['BPDU:', rest]: None.group(1) raises AttributeError before the
\* table is touched
OnBpduLine(locals, rest) ==
    LET bpdu_count_match == BPDU_REGEX_PATTERN(rest)
    IN  IF bpdu_count_match = None
        THEN [locals EXCEPT !.raised = "AttributeError"]
        ELSE LET c == int(bpdu_count_match.group1)
             IN  [locals EXCEPT
                     !.counter = c,
                     !.result = AddCounter(locals.result, locals.port, c)]

\* the match statement with case [_, rest] in place of case ['BPDU:', rest]
LoopBodyCatchAll(locals, line) ==
    LET tokens == split(line)
    IN  IF Len(tokens) = 2 /\ tokens[1] = KW_PORT
        THEN OnPortLine(locals, tokens[2])
        ELSE IF Len(tokens) = 2
        THEN OnBpduLine(locals, tokens[2])
        ELSE locals

\* the match statement with the keywords compared by startswith
LoopBodyKeywordPrefix(locals, line) ==
    LET tokens == split(line)
        starts(kw) == /\ Len(tokens[1]) >= Len(kw)
                      /\ SubSeq(tokens[1], 1, Len(kw)) = kw
    IN  IF Len(tokens) = 2 /\ starts(KW_PORT)
        THEN OnPortLine(locals, tokens[2])
        ELSE IF Len(tokens) = 2 /\ starts(KW_BPDU)
        THEN OnBpduLine(locals, tokens[2])
        ELSE locals

\* one iteration of the for loop: split and the match statement; a line
\* that matches no case changes nothing
LoopBody(locals, line) ==
    LET tokens == split(line)
    IN  IF Len(tokens) = 2 /\ tokens[1] = KW_PORT
        THEN OnPortLine(locals, tokens[2])
        ELSE IF Len(tokens) = 2 /\ tokens[1] = KW_BPDU
        THEN OnBpduLine(locals, tokens[2])
        ELSE locals

\* the whole loop over lines, then the return statement
RECURSIVE RunLoop(_, _)
RunLoop(locals, lines) ==
    IF locals.raised # "" THEN [raised |-> locals.raised, table |-> None]
    ELSE IF lines = << >>
    THEN [raised |-> "", table |-> Dict(FilterPositive(locals.result))]
    ELSE RunLoop(LoopBody(locals, Head(lines)), Tail(lines))

----------------------------------------------------------------------------
(* CommandHandler.print_result *)

\* printable ASCII in code point order, from " " (32) to "~" (126); code
\* point 96 is spelled out
Ascii ==
    << " ", "!", "\"", "#", "$", "%", "&", "'", "(", ")", "*", "+", ",", "-",
       ".", "/", "0", "1", "2", "3", "4", "5", "6", "7", "8", "9", ":", ";",
       "<", "=", ">", "?", "@", "A", "B", "C", "D", "E", "F", "G", "H", "I",
       "J", "K", "L", "M", "N", "O", "P", "Q", "R", "S", "T", "U", "V", "W",
       "X", "Y", "Z", "[", "\\", "]", "^", "_", "backtick", "a", "b", "c", "d", "e",
       "f", "g", "h", "i", "j", "k", "l", "m", "n", "o", "p", "q", "r", "s",
       "t", "u", "v", "w", "x", "y", "z", "{", "|", "}", "~" >>

\* ord(c)
ord(c) ==
    CASE c = "\t" -> 9
      [] c = "\n" -> 10
      [] c = "\r" -> 13
      [] OTHER    -> 31 + (CHOOSE i \in 1..Len(Ascii) : Ascii[i] = c)

\* a < b on str: lexicographic by code point
RECURSIVE StrLess(_, _)
StrLess(a, b) ==
    IF b = << >> THEN FALSE
    ELSE IF a = << >> THEN TRUE
    ELSE IF Head(a) = Head(b) THEN StrLess(Tail(a), Tail(b))
    ELSE ord(Head(a)) < ord(Head(b))

\* the keys of sorted(..., reverse=True): descending
RECURSIVE sorted_reverse(_)
sorted_reverse(keys) ==
    IF keys = {} THEN << >>
    ELSE LET last == CHOOSE k \in keys :
                         \A other \in keys \ {k} : StrLess(other, k)
         IN  << last >> \o sorted_reverse(keys \ {last})

\* the keys of sorted(table.items(), key=lambda item: item[0])
RECURSIVE sorted(_)
sorted(keys) ==
    IF keys = {} THEN << >>
    ELSE LET first == CHOOSE k \in keys :
                          \A other \in keys \ {k} : StrLess(k, other)
         IN  << first >> \o sorted(keys \ {first})

\* str(n) for n >= 0
RECURSIVE str(_)
str(n) ==
    IF n < 10 THEN << Ascii[17 + n] >>
    ELSE str(n \div 10) \o << Ascii[17 + (n % 10)] >>

\* s padded with spaces on the right up to width characters
RECURSIVE ljust(_, _)
ljust(s, width) ==
    IF Len(s) >= width THEN s ELSE ljust(s \o << " " >>, width)

\* f'{port:25} - {counter}'
FormatEntry(port, counter) ==
    ljust(port, 25) \o << " ", "-", " " >> \o str(counter)

\* what print_result prints for a table
PrintedLines(table) ==
    LET keys == sorted(DOMAIN table)
    IN  [i \in 1..Len(keys) |-> FormatEntry(keys[i], table[keys[i]])]

----------------------------------------------------------------------------
(* Inputs *)

\* command lines: no argument, or the address of the target device
Argvs == { << >>, << "10.0.0.1" >> }

Usernames == {"admin"}

Passwords == {"secret"}

\* "Port<ws><num> (<label>)<trail>"
PortLine(ws, num, label, trail) ==
    KW_PORT \o ws \o num \o << " ", "(" >> \o label \o << ")" >> \o trail

\* "BPDU:<ws><pre> received <digits>"
BpduLine(ws, pre, digits) ==
    KW_BPDU \o ws \o pre \o RECEIVED \o digits

\* "sent 0," as in "BPDU: sent 0, received 12"
Sent0 == << "0", "," >>

\* raw lines of the narrow sample
CoreLines ==
    { PortLine(<< " " >>, << "1" >>, << "a" >>, << >>),
      PortLine(<< " ", " " >>, << "2", "3" >>, << "b" >>, << " ", "x" >>),
      << " " >> \o BpduLine(<< " " >>, Sent0, << "1", "2" >>),
      BpduLine(<< " " >>, << "3", "," >>, << "0" >>),
      KW_PORT \o << " ", "a", "b", "c" >>,
      KW_BPDU \o << " ", "r", "e", "c", "e", "i", "v", "e", "d", " ", "5" >>,
      << "R", "o", "o", "t", " ", "I", "D" >> }

\* the label of the example "Port  3 (GigabitEthernet0/3)"
GigabitEthernet03 ==
    << "G", "i", "g", "a", "b", "i", "t", "E", "t", "h", "e", "r", "n", "e", "t", "0", "/", "3" >>

\* valid port-declaration lines by their parts: whitespace after the
\* keyword, port number, label
PortParts ==
    [ws    : {<< " " >>, << " ", " " >>, << "\t" >>},
     num   : {<< "3" >>, << "2", "3" >>},
     label : {<< "a" >>, GigabitEthernet03}]

\* valid BPDU-count lines by their parts: text before " received ", the
\* digits after it and the number they denote
BpduParts ==
    [pre   : {<< "0", "," >>,
              << "s", "e", "n", "t", " ", "3", "," >>,
              << "1", " ", "r", "e", "c", "e", "i", "v", "e", "d", " ", "7", "," >>},
     count : {[digits |-> << "1", "2" >>, value |-> 12],
              [digits |-> << "0" >>, value |-> 0],
              [digits |-> << "0", "0", "7" >>, value |-> 7]}]

\* lines that match no case of the match statement
UnmatchedLines ==
    { << "P", "o", "r", "t" >>,
      << "B", "P", "D", "U", ":" >>,
      << >>,
      << "P", "o", "r", "t", "s", " ", "1", " ", "(", "a", ")" >>,
      << "p", "o", "r", "t", " ", "1", " ", "(", "a", ")" >>,
      << "B", "P", "D", "U", " ", "0", ",", " ", "r", "e", "c", "e", "i", "v", "e", "d", " ", "1" >>,
      << "b", "p", "d", "u", ":", " ", "0", ",", " ", "r", "e", "c", "e", "i", "v", "e", "d", " ", "1" >>,
      << "B", "P", "D", "U", ":", "x", " ", "0", ",", " ", "r", "e", "c", "e", "i", "v", "e", "d", " ", "1" >>,
      << "R", "o", "o", "t", " ", "I", "D" >> }

\* lines with a keyword and a remainder that does not match its pattern
MalformedLines ==
    { << "P", "o", "r", "t", " ", "a", "b", "c" >>,
      << "P", "o", "r", "t", " ", "1", "(", "a", ")" >>,
      << "P", "o", "r", "t", " ", "1", " ", "(", ")" >>,
      << "B", "P", "D", "U", ":", " ", "r", "e", "c", "e", "i", "v", "e", "d", " ", "5" >>,
      << "B", "P", "D", "U", ":", " ", "0", ",", " ", "r", "e", "c", "e", "i", "v", "e", "d", " ", "1", "x" >>,
      << "B", "P", "D", "U", ":", " ", "0", ",", " ", "r", "e", "c", "e", "i", "v", "e", "d", " " >> }

\* raw lines of the wide sample
WideLines ==
    { PortLine(p.ws, p.num, p.label, << >>) : p \in PortParts }
    \cup { BpduLine(<< " " >>, b.pre, b.count.digits) : b \in BpduParts }
    \cup { << " " >> \o PortLine(<< " " >>, << "1" >>, << "b" >>,
                                 << " ", "x", " " >>) }
    \cup UnmatchedLines
    \cup MalformedLines

\* '\n'.join(lines)
RECURSIVE join(_)
join(lines) ==
    IF Len(lines) = 1 THEN lines[1]
    ELSE lines[1] \o << "\n" >> \o join(Tail(lines))

\* the texts send_command can return: up to maxLines sample lines
Outputs(samples, maxLines) ==
    { join(ls) : ls \in UNION { [1..n -> samples] : n \in 1..maxLines } }

----------------------------------------------------------------------------
(* The program *)

\* what has been called on a Device since Device.__init__: whether
\* execute_command has run, and how the latest command_output_processing
\* since then ended ("none", "returned" or "raised")
Constructed == [executed |-> FALSE, last_call |-> "none"]

\* Device.__init__: self.cli_command_result = []
NewDevice == [cli_command_result |-> << >>, lifecycle |-> Constructed]

\* no command_output_processing call yet; otherwise the lines the call found
\* in cli_command_result, the lifecycle of its Device at entry and how the
\* call ended ("running" until then)
NoCall == [lines |-> << >>, lifecycle |-> Constructed, outcome |-> "none"]

Init ==
    /\ pc = "parse_arguments"
    /\ host_address = ""
    /\ username = ""
    /\ password = ""
    /\ port_counters = Dict(EmptyTable)
    /\ device = None
    /\ sent_command = ""
    /\ command_output = << >>
    /\ cli_command_result = << >>
    /\ _port = << >>
    /\ _counter = 0
    /\ _result = EmptyTable
    /\ cop_calls = 0
    /\ stdout = << >>
    /\ raised = ""
    /\ other_device = NewDevice
    /\ lifecycle = Constructed
    /\ call = NoCall

\* CommandHandler.parse_arguments: one positional argument, else argparse
\* exits
parse_arguments ==
    /\ pc = "parse_arguments"
    /\ \E argv \in Argvs :
          IF Len(argv) = 1
          THEN /\ host_address' = argv[1]
               /\ pc' = "input_credentials"
               /\ raised' = raised
          ELSE /\ host_address' = host_address
               /\ pc' = "raised"
               /\ raised' = "SystemExit"
    /\ UNCHANGED << other_device, lifecycle, call,
                    username, password, port_counters, device, sent_command,
                    command_output, cli_command_result, _port, _counter,
                    _result, cop_calls, stdout >>

\* CommandHandler.input_credentials
input_credentials ==
    /\ pc = "input_credentials"
    /\ username' \in Usernames
    /\ password' \in Passwords
    /\ pc' = "collect_counters"
    /\ UNCHANGED << other_device, lifecycle, call,
                    host_address, port_counters, device, sent_command,
                    command_output, cli_command_result, _port, _counter,
                    _result, cop_calls, stdout, raised >>

\* CommandHandler.collect_counters up to the call switch(): Device.__init__
collect_counters ==
    /\ pc = "collect_counters"
    /\ device' = [device_type |-> "cisco_ios", host |-> host_address,
                  username |-> username, password |-> password]
    /\ cli_command_result' = << >>
    /\ pc' = "execute_command"
    /\ UNCHANGED << other_device, lifecycle, call,
                    host_address, username, password, port_counters,
                    sent_command, command_output, _port, _counter, _result,
                    cop_calls, stdout, raised >>

\* Device.__call__ when execute_command raises: the message is printed,
\* __call__ returns None and collect_counters stores it
ExecuteFails(message) ==
    /\ pc = "execute_command"
    /\ stdout' = Append(stdout, << "Device: ", device.host, message >>)
    /\ port_counters' = None
    /\ pc' = "print_result"
    /\ UNCHANGED << other_device, lifecycle, call,
                    host_address, username, password, device, sent_command,
                    command_output, cli_command_result, _port, _counter,
                    _result, cop_calls, raised >>

\* except NetmikoTimeoutException
execute_command_timeout ==
    ExecuteFails(" - not responding")

\* except NetmikoAuthenticationException
execute_command_auth ==
    ExecuteFails(" - auth failed")

\* Device.execute_command returning, and the entry of
\* command_output_processing: the lines are split now and stripped lazily,
\* the locals are initialised
ExecuteReturns(text) ==
    /\ sent_command' = CLI_COMMAND
    /\ command_output' = text
    /\ cli_command_result' = split_newline(text)
    /\ _port' = FreshLocals.port
    /\ _counter' = FreshLocals.counter
    /\ _result' = FreshLocals.result
    /\ cop_calls' = cop_calls + 1
    /\ pc' = "command_output_processing"
    /\ UNCHANGED << other_device, lifecycle, call,
                    host_address, username, password, port_counters, device,
                    stdout, raised >>

execute_command ==
    /\ pc = "execute_command"
    /\ \E text \in Outputs(CoreLines, MaxLines) : ExecuteReturns(text)

\* the same with the output drawn from the wide sample
execute_command_wide ==
    /\ pc = "execute_command"
    /\ \E text \in Outputs(WideLines, MaxWideLines) : ExecuteReturns(text)

\* one iteration of for line in self.cli_command_result
process_line ==
    /\ pc = "command_output_processing"
    /\ cli_command_result # << >>
    /\ LET line == strip(Head(cli_command_result))
           r    == LoopBody(Locals(_port, _counter, _result), line)
       IN  /\ cli_command_result' = Tail(cli_command_result)
           /\ _port' = r.port
           /\ _counter' = r.counter
           /\ _result' = r.result
           /\ raised' = r.raised
           /\ pc' = IF r.raised = "" THEN pc ELSE "raised"
    /\ UNCHANGED << other_device, lifecycle, call,
                    host_address, username, password, port_counters, device,
                    sent_command, command_output, cop_calls, stdout >>

\* the loop is over: command_output_processing returns the filtered table,
\* __call__ returns it and collect_counters stores it
return_result ==
    /\ pc = "command_output_processing"
    /\ cli_command_result = << >>
    /\ port_counters' = Dict(FilterPositive(_result))
    /\ pc' = "print_result"
    /\ UNCHANGED << other_device, lifecycle, call,
                    host_address, username, password, device, sent_command,
                    command_output, cli_command_result, _port, _counter,
                    _result, cop_calls, stdout, raised >>

\* CommandHandler.print_result: None has no items()
print_result ==
    /\ pc = "print_result"
    /\ IF port_counters = None
       THEN /\ raised' = "AttributeError"
            /\ pc' = "raised"
            /\ stdout' = stdout
       ELSE /\ stdout' = stdout \o PrintedLines(port_counters.items)
            /\ pc' = "done"
            /\ raised' = raised
    /\ UNCHANGED << other_device, lifecycle, call,
                    host_address, username, password, port_counters, device,
                    sent_command, command_output, cli_command_result, _port,
                    _counter, _result, cop_calls >>

Next ==
    \/ parse_arguments
    \/ input_credentials
    \/ collect_counters
    \/ execute_command
    \/ execute_command_timeout
    \/ execute_command_auth
    \/ process_line
    \/ return_result
    \/ print_result

Spec == Init /\ [][Next]_vars

NextWide ==
    \/ parse_arguments
    \/ input_credentials
    \/ collect_counters
    \/ execute_command_wide
    \/ execute_command_timeout
    \/ execute_command_auth
    \/ process_line
    \/ return_result
    \/ print_result

SpecWide == Init /\ [][NextWide]_vars

----------------------------------------------------------------------------
(* The methods of Device called one by one: a caller that holds two Device *)
(* objects and calls execute_command and command_output_processing on them *)
(* in any order, catching what they raise                                  *)

\* command_output_processing calls in one run of the caller
MaxParses == 3

\* the texts send_command returns to the caller: a port with a count, a
\* malformed port line before a port with a count, a count with no port
\* line before it, and a port with a zero count
ApiOutputs ==
    LET port_a   == PortLine(<< " " >>, << "1" >>, << "a" >>, << >>)
        port_b   == PortLine(<< " ", " " >>, << "2", "3" >>, << "b" >>,
                             << " ", "x" >>)
        twelve   == << " " >> \o BpduLine(<< " " >>, Sent0, << "1", "2" >>)
        zero     == BpduLine(<< " " >>, << "3", "," >>, << "0" >>)
        port_abc == KW_PORT \o << " ", "a", "b", "c" >>
    IN  { join(<< port_a, twelve >>),
          join(<< port_abc, port_a, twelve >>),
          twelve,
          join(<< port_b, zero >>) }

\* the caller holds two Devices built by Device.__init__ and has called
\* nothing yet
InitApi ==
    /\ pc = "api_idle"
    /\ host_address = "10.0.0.1"
    /\ username = "admin"
    /\ password = "secret"
    /\ port_counters = Dict(EmptyTable)
    /\ device = [device_type |-> "cisco_ios", host |-> "10.0.0.1",
                 username |-> "admin", password |-> "secret"]
    /\ sent_command = ""
    /\ command_output = << >>
    /\ cli_command_result = NewDevice.cli_command_result
    /\ lifecycle = NewDevice.lifecycle
    /\ other_device = NewDevice
    /\ _port = << >>
    /\ _counter = 0
    /\ _result = EmptyTable
    /\ cop_calls = 0
    /\ stdout = << >>
    /\ raised = ""
    /\ call = NoCall

\* Device.__init__ again: the caller replaces the Device by a new one
api_new_device ==
    /\ pc = "api_idle"
    /\ cli_command_result' = NewDevice.cli_command_result
    /\ lifecycle' = NewDevice.lifecycle
    /\ UNCHANGED << host_address, username, password, port_counters, device,
                    sent_command, command_output, _port, _counter, _result,
                    cop_calls, stdout, raised, other_device, call, pc >>

\* the caller turns to its other Device
api_switch_device ==
    /\ pc = "api_idle"
    /\ cli_command_result' = other_device.cli_command_result
    /\ lifecycle' = other_device.lifecycle
    /\ other_device' = [cli_command_result |-> cli_command_result,
                        lifecycle |-> lifecycle]
    /\ UNCHANGED << host_address, username, password, port_counters, device,
                    sent_command, command_output, _port, _counter, _result,
                    cop_calls, stdout, raised, call, pc >>

\* Device.execute_command: a new iterator over the lines replaces the old
\* one (when the connection fails the call raises before the assignment and
\* nothing changes)
api_execute_command ==
    /\ pc = "api_idle"
    /\ \E text \in ApiOutputs :
          /\ sent_command' = CLI_COMMAND
          /\ command_output' = text
          /\ cli_command_result' = split_newline(text)
    /\ lifecycle' = [executed |-> TRUE, last_call |-> "none"]
    /\ UNCHANGED << host_address, username, password, port_counters, device,
                    _port, _counter, _result, cop_calls, stdout, raised,
                    other_device, call, pc >>

\* Device.command_output_processing is entered: the locals are initialised
api_command_output_processing ==
    /\ pc = "api_idle"
    /\ cop_calls < MaxParses
    /\ _port' = FreshLocals.port
    /\ _counter' = FreshLocals.counter
    /\ _result' = FreshLocals.result
    /\ cop_calls' = cop_calls + 1
    /\ raised' = ""
    /\ call' = [lines |-> cli_command_result, lifecycle |-> lifecycle,
                outcome |-> "running"]
    /\ pc' = "command_output_processing"
    /\ UNCHANGED << host_address, username, password, port_counters, device,
                    sent_command, command_output, cli_command_result, stdout,
                    other_device, lifecycle >>

\* the iterable is a list: the next loop over it starts from its first line
api_return_rewinds ==
    /\ pc = "command_output_processing"
    /\ cli_command_result = << >>
    /\ port_counters' = Dict(FilterPositive(_result))
    /\ cli_command_result' = call.lines
    /\ lifecycle' = [lifecycle EXCEPT !.last_call = "returned"]
    /\ call' = [call EXCEPT !.outcome = "returned"]
    /\ pc' = "api_idle"
    /\ UNCHANGED << host_address, username, password, device, sent_command,
                    command_output, _port, _counter, _result, cop_calls,
                    stdout, raised, other_device >>

\* the loop is over: command_output_processing returns the filtered table
\* to the caller; the iterator stays exhausted
api_return ==
    /\ pc = "command_output_processing"
    /\ cli_command_result = << >>
    /\ port_counters' = Dict(FilterPositive(_result))
    /\ cli_command_result' = cli_command_result
    /\ lifecycle' = [lifecycle EXCEPT !.last_call = "returned"]
    /\ call' = [call EXCEPT !.outcome = "returned"]
    /\ pc' = "api_idle"
    /\ UNCHANGED << host_address, username, password, device, sent_command,
                    command_output, _port, _counter, _result, cop_calls,
                    stdout, raised, other_device >>

\* the caller catches the exception that left command_output_processing:
\* the iterator stays where the loop left it
api_except ==
    /\ pc = "raised"
    /\ lifecycle' = [lifecycle EXCEPT !.last_call = "raised"]
    /\ call' = [call EXCEPT !.outcome = "raised"]
    /\ pc' = "api_idle"
    /\ UNCHANGED << host_address, username, password, port_counters, device,
                    sent_command, command_output, cli_command_result, _port,
                    _counter, _result, cop_calls, stdout, raised,
                    other_device >>

NextApi ==
    \/ api_new_device
    \/ api_switch_device
    \/ api_execute_command
    \/ api_command_output_processing
    \/ process_line
    \/ api_return
    \/ api_except

SpecApi == InitApi /\ [][NextApi]_vars

----------------------------------------------------------------------------
(* The pass seen from its input *)

\* map(str.strip, lines)
RECURSIVE StripAll(_)
StripAll(lines) ==
    IF lines = << >> THEN << >>
    ELSE << strip(Head(lines)) >> \o StripAll(Tail(lines))

\* the lines the loop iterates over: map(str.strip, text.split('\n'))
AllLines == StripAll(split_newline(command_output))

\* the lines the loop has taken from the iterator so far
Consumed ==
    IF cop_calls = 0 THEN << >>
    ELSE LET all == split_newline(command_output)
         IN  StripAll(SubSeq(all, 1, Len(all) - Len(cli_command_result)))

\* the loop is running
InPass == pc = "command_output_processing"

\* command_output_processing has returned its table
Returned == cop_calls > 0 /\ pc \in {"print_result", "done"}

\* command_output_processing was left by an exception
ParseFailed == cop_calls > 0 /\ pc = "raised"

\* what a line is to the match statement and the patterns: a port
\* declaration with its label, a BPDU count with its number, a keyword with
\* a remainder its pattern rejects, or a line no case matches
Classify(line) ==
    LET tokens == split(line)
        kind(k) == [kind |-> k, label |-> << >>, count |-> 0]
    IN  IF Len(tokens) = 2 /\ tokens[1] = KW_PORT
        THEN LET m == PORT_REGEX_PATTERN(tokens[2])
             IN  IF m = None THEN kind("MalformedPortLine")
                 ELSE [kind("PortDeclaration") EXCEPT !.label = m.group1]
        ELSE IF Len(tokens) = 2 /\ tokens[1] = KW_BPDU
        THEN LET m == BPDU_REGEX_PATTERN(tokens[2])
             IN  IF m = None THEN kind("MalformedObservationLine")
                 ELSE [kind("BpduObservation") EXCEPT !.count = int(m.group1)]
        ELSE IF Len(tokens) = 1 /\ tokens[1] \in {KW_PORT, KW_BPDU}
        THEN kind("KeywordAlone")
        ELSE kind("Unrecognized")

RECURSIVE ClassifyAll(_)
ClassifyAll(lines) ==
    IF lines = << >> THEN << >>
    ELSE << Classify(Head(lines)) >> \o ClassifyAll(Tail(lines))

\* the classified lines consumed so far
History == ClassifyAll(Consumed)

\* a port-declaration line: keyword "Port", the remainder matches
IsPortDeclaration(line) == Classify(line).kind = "PortDeclaration"

\* a BPDU-count line: keyword "BPDU:", the remainder matches
IsBpduObservation(line) == Classify(line).kind = "BpduObservation"

\* keyword "Port" with a remainder that does not match the port pattern
MalformedPortLine(line) == Classify(line).kind = "MalformedPortLine"

\* keyword "BPDU:" with a remainder that does not match its pattern
MalformedObservationLine(line) ==
    Classify(line).kind = "MalformedObservationLine"

\* the leading token is neither "Port" nor "BPDU:"
Unrecognized(line) == Classify(line).kind = "Unrecognized"

\* positions of the port declarations before position i
DeclarationsBefore(h, i) ==
    {j \in 1..(i - 1) : h[j].kind = "PortDeclaration"}

\* the label current when line i is processed; '' before any declaration
CurrentPortAt(h, i) ==
    LET before == DeclarationsBefore(h, i)
    IN  IF before = {} THEN << >> ELSE h[Max(before)].label

\* positions of the observations processed while label was current
ObservationsOf(h, label) ==
    {i \in 1..Len(h) :
        h[i].kind = "BpduObservation" /\ CurrentPortAt(h, i) = label}

RECURSIVE SumCounts(_, _)
SumCounts(h, positions) ==
    IF positions = {} THEN 0
    ELSE LET i == Min(positions)
         IN  h[i].count + SumCounts(h, positions \ {i})

\* labels that were current at some point of the pass
LabelsOf(h) ==
    {CurrentPortAt(h, i) : i \in 1..(Len(h) + 1)}

----------------------------------------------------------------------------
(* Claims *)

\* C1: during and after a pass that has not failed, the counter of every
\* label equals the sum of the counts of the BPDU-count lines processed
\* while that label was the current port; a label without such a line has
\* no counter. Repeated sections of one label add up.
C1_CounterIsSumOfObservations ==
    (InPass \/ Returned) =>
        LET h == History
        IN  /\ DOMAIN _result \subseteq LabelsOf(h)
            /\ \A label \in LabelsOf(h) :
                  LET obs == ObservationsOf(h, label)
                  IN  /\ label \in DOMAIN _result <=> obs # {}
                      /\ obs # {} => _result[label] = SumCounts(h, obs)

\* C1 witness: a label declared, another one declared, the first declared
\* again, with a positive observation in each of its two sections
C1_Witness ==
    /\ Returned
    /\ LET h == History
       IN  \E i, j, k \in 1..Len(h) :
              /\ i < j /\ j < k
              /\ h[i].kind = "PortDeclaration"
              /\ h[j].kind = "PortDeclaration"
              /\ h[k].kind = "PortDeclaration"
              /\ h[i].label = h[k].label
              /\ h[i].label # h[j].label
              /\ \E m \in (i + 1)..(j - 1) :
                    h[m].kind = "BpduObservation" /\ h[m].count > 0
              /\ \E m \in (k + 1)..Len(h) :
                    h[m].kind = "BpduObservation" /\ h[m].count > 0
              /\ _result[h[i].label] = 24

\* C2: the table command_output_processing returns holds exactly the
\* entries of the accumulated table whose counter is greater than 0.
C2_ReturnedIsPositivePart ==
    Returned =>
        /\ port_counters # None
        /\ \A k \in DOMAIN port_counters.items : port_counters.items[k] > 0
        /\ \A k \in DOMAIN _result :
              _result[k] > 0 =>
                  /\ k \in DOMAIN port_counters.items
                  /\ port_counters.items[k] = _result[k]
        /\ DOMAIN port_counters.items \subseteq DOMAIN _result

\* C2 witness: a returned table that kept one port and dropped another
C2_Witness ==
    /\ Returned
    /\ \E k \in DOMAIN _result : _result[k] = 0
    /\ \E k \in DOMAIN _result : _result[k] > 0

\* C3 (as claimed): a BPDU-count line processed before any port declaration
\* makes the parse fail at that line, without a result table
C3_ObservationBeforePortFails ==
    LET h == History
    IN  \A i \in 1..Len(h) :
            (h[i].kind = "BpduObservation" /\ DeclarationsBefore(h, i) = {})
                => /\ ParseFailed
                   /\ i = Len(h)
                   /\ port_counters = Dict(EmptyTable)

\* C4: a line with keyword "Port" whose remainder does not match the port
\* pattern ends the parse at that line with an exception: no later line is
\* consumed, no table is returned, nothing is printed.
C4_MalformedPortLineFails ==
    LET h == History
    IN  \A i \in 1..Len(h) :
            h[i].kind = "MalformedPortLine"
                => /\ ParseFailed
                   /\ raised = "AttributeError"
                   /\ i = Len(h)
                   /\ port_counters = Dict(EmptyTable)
                   /\ stdout = << >>

\* C4 witness: the failure happens between valid lines
C4_Witness ==
    /\ ParseFailed
    /\ LET h == History
       IN  /\ Len(h) >= 3
           /\ h[Len(h)].kind = "MalformedPortLine"
           /\ h[1].kind = "PortDeclaration"
           /\ h[2].kind = "BpduObservation"
    /\ cli_command_result # << >>
    /\ IsBpduObservation(strip(Head(cli_command_result)))

\* the loop is about to process this line
NextLine == strip(Head(cli_command_result))

\* C5: the step that processes a line with keyword "BPDU:" whose remainder
\* does not match the observation pattern raises, leaves the counter table
\* as it was and returns no table.
C5_MalformedObservationFails ==
    [][(InPass /\ cli_command_result # << >>
            /\ MalformedObservationLine(NextLine))
        => /\ pc' = "raised"
           /\ raised' = "AttributeError"
           /\ _result' = _result
           /\ port_counters' = Dict(EmptyTable)
           /\ stdout' = << >>]_vars

\* C5 witness: the parse failed on a malformed observation line with a
\* non-empty counter table
C5_Witness ==
    /\ ParseFailed
    /\ LET h == History IN h[Len(h)].kind = "MalformedObservationLine"
    /\ \E k \in DOMAIN _result : _result[k] > 0

\* execute_command raised one of the two handled exceptions
ExecuteFailed == port_counters = None

\* C6 (as claimed): after a failed command execution a message is printed,
\* the parse is not invoked and run() does not raise
C6_ExecuteFailureIsNotFatal ==
    ExecuteFailed =>
        /\ Len(stdout) >= 1
        /\ cop_calls = 0
        /\ pc # "raised"


\* the lines that are left when the unrecognized ones are removed
RemoveUnrecognized(lines) ==
    SelectSeq(lines, LAMBDA l : ~Unrecognized(l))

\* how the parse ended: the returned table, or the exception
ParseOutcome ==
    IF pc = "raised" THEN [raised |-> raised, table |-> None]
    ELSE [raised |-> "", table |-> port_counters]

\* C7: the outcome of a parse (table or failure) is the outcome of the parse
\* of the same lines with every unrecognized line removed, so inserting
\* unrecognized lines anywhere does not change the result table.
C7_UnrecognizedLinesDoNotMatter ==
    (Returned \/ ParseFailed) =>
        ParseOutcome =
            RunLoop(Locals(<< >>, 0, EmptyTable), RemoveUnrecognized(AllLines))

\* C7 witness: a table was returned for an input with unrecognized lines
\* before, between and after the recognized ones
C7_Witness ==
    /\ Returned
    /\ LET h == History
       IN  /\ Len(h) = 5
           /\ h[1].kind = "Unrecognized"
           /\ h[2].kind = "PortDeclaration"
           /\ h[3].kind = "Unrecognized"
           /\ h[4].kind = "BpduObservation"
           /\ h[5].kind = "Unrecognized"
    /\ DOMAIN port_counters.items # {}

\* C8 (as claimed): every key of the counter table was set as current port
\* by an earlier port declaration and had an observation processed while it
\* was current
C8_KeysWereDeclaredAndObserved ==
    LET h == History
    IN  \A k \in DOMAIN _result :
            \E i \in 1..Len(h) :
                /\ h[i].kind = "PortDeclaration"
                /\ h[i].label = k
                /\ \E j \in ObservationsOf(h, k) : j > i

Last(lines) == lines[Len(lines)]

\* C9: after a port-declaration line built from any whitespace after the
\* keyword, any number and a label in parentheses, the parse has not failed
\* and the current port is exactly that label.
C9_CurrentPortIsTheLabel ==
    LET lines == Consumed
    IN  lines # << >> =>
            \A p \in PortParts :
                Last(lines) = PortLine(p.ws, p.num, p.label, << >>)
                    => (pc # "raised" /\ _port = p.label)

\* C9 witness: the example line after another declaration of another port
C9_Witness ==
    /\ InPass
    /\ Consumed =
          << PortLine(<< "\t" >>, << "2", "3" >>, << "a" >>, << >>),
             PortLine(<< " ", " " >>, << "3" >>, GigabitEthernet03, << >>) >>
    /\ _port = GigabitEthernet03

\* the counter of a port, 0 when the table has no entry for it
CounterOf(table, port) == IF port \in DOMAIN table THEN table[port] ELSE 0

\* C10: the step that processes a BPDU-count line raises nothing, sets the
\* count to the number written after the final " received " and adds
\* exactly that number to the counter of the current port, leaving every
\* other counter alone.
C10_ObservationContributesFinalNumber ==
    [][\A b \in BpduParts :
          (InPass /\ cli_command_result # << >>
              /\ NextLine = BpduLine(<< " " >>, b.pre, b.count.digits))
          => /\ pc' = pc
             /\ _counter' = b.count.value
             /\ DOMAIN _result' = DOMAIN _result \cup {_port}
             /\ \A k \in DOMAIN _result' :
                   _result'[k] = CounterOf(_result, k)
                                   + (IF k = _port THEN b.count.value ELSE 0)
      ]_vars

\* C10 witness: "BPDU: 0, received 12" has added 12 to a port that already
\* had a count
C10_Witness ==
    /\ InPass
    /\ Consumed =
          << BpduLine(<< " " >>, << "1", " " >> \o Tail(RECEIVED)
                                   \o << "7", "," >>, << "0", "0", "7" >>),
             BpduLine(<< " " >>, << "0", "," >>, << "1", "2" >>) >>
    /\ _counter = 12
    /\ _result[_port] = 19

\* the zero-filter of the specification: the entries with counter > 0
ZeroFilter(table) ==
    [k \in {p \in DOMAIN table : table[p] > 0} |-> table[k]]

\* C11: the zero-filter applied to the table command_output_processing
\* returned gives that table again.
C11_FilterIsIdempotent ==
    Returned => ZeroFilter(port_counters.items) = port_counters.items

\* C11 witness: a returned table with an entry, built from a table that had
\* a zero counter to drop
C11_Witness ==
    /\ Returned
    /\ DOMAIN port_counters.items # {}
    /\ DOMAIN port_counters.items # DOMAIN _result

\* the separator of a printed entry
Dash == << " ", "-", " " >>

\* the label of a printed entry: the text before " - <digits>", without the
\* padding
PrintedLabel(line) ==
    rstrip(SubSeq(line, 1, Len(line) - TrailingDigits(line) - Len(Dash)))

\* the counter of a printed entry: the number after " - "
PrintedCounter(line) ==
    int(SubSeq(line, Len(line) - TrailingDigits(line) + 1, Len(line)))

\* line has the shape <text> - <digits>
IsPrintedEntry(line) ==
    LET t == TrailingDigits(line)
    IN  /\ t >= 1
        /\ Len(line) >= t + Len(Dash)
        /\ SubSeq(line, Len(line) - t - Len(Dash) + 1, Len(line) - t) = Dash

\* C12: when print_result is done, the output has one line per entry of the
\* result table, each line carries the label and the counter of an entry,
\* and the labels ascend from line to line.
C12_PrintsEntriesInLabelOrder ==
    pc = "done" =>
        LET t == port_counters.items
        IN  /\ Len(stdout) = Cardinality(DOMAIN t)
            /\ \A i \in 1..Len(stdout) :
                  /\ IsPrintedEntry(stdout[i])
                  /\ PrintedLabel(stdout[i]) \in DOMAIN t
                  /\ PrintedCounter(stdout[i]) = t[PrintedLabel(stdout[i])]
            /\ \A i, j \in 1..Len(stdout) :
                  i < j => StrLess(PrintedLabel(stdout[i]),
                                   PrintedLabel(stdout[j]))

\* C12 witness: two entries were printed
C12_Witness ==
    /\ pc = "done"
    /\ Len(stdout) >= 2
    /\ Cardinality(DOMAIN port_counters.items) >= 2

\* the loop is about to process a line
AtLine == InPass /\ cli_command_result # << >>

\* C13: the step that processes a BPDU-count line that has a port
\* declaration before it adds the count to the counter of the label of the
\* most recent of those declarations, creating it if absent, and changes no
\* other counter: a port that is no longer current gets nothing.
C13_ObservationGoesToLatestDeclaration ==
    [][(AtLine /\ IsBpduObservation(NextLine))
        => LET h      == History
               latest == CurrentPortAt(h, Len(h) + 1)
               count  == Classify(NextLine).count
           IN  DeclarationsBefore(h, Len(h) + 1) # {}
                 => /\ DOMAIN _result' = DOMAIN _result \cup {latest}
                    /\ \A k \in DOMAIN _result' :
                          _result'[k] = CounterOf(_result, k)
                                          + (IF k = latest THEN count ELSE 0)
      ]_vars

\* C13 witness: an observation was added to a second port while the first
\* port kept its count
C13_Witness ==
    /\ InPass
    /\ LET h == History
       IN  /\ Len(h) = 4
           /\ h[1].kind = "PortDeclaration"
           /\ h[2].kind = "BpduObservation" /\ h[2].count > 0
           /\ h[3].kind = "PortDeclaration" /\ h[3].label # h[1].label
           /\ h[4].kind = "BpduObservation" /\ h[4].count > 0
           /\ _result[h[1].label] = h[2].count
           /\ _result[h[3].label] = h[4].count

\* C14: the step that processes a port-declaration line sets the current
\* port to its label and changes nothing else: the counter table keeps its
\* keys and counters, so no entry is created for the declared port.
C14_DeclarationChangesOnlyCurrentPort ==
    [][(AtLine /\ IsPortDeclaration(NextLine))
        => /\ _port' = Classify(NextLine).label
           /\ _result' = _result
           /\ _counter' = _counter
           /\ pc' = pc
           /\ raised' = raised
           /\ port_counters' = port_counters
           /\ stdout' = stdout
      ]_vars

\* C14 witness: a port was declared after another port was counted, and it
\* has no entry
C14_Witness ==
    /\ InPass
    /\ DOMAIN _result # {}
    /\ _port \notin DOMAIN _result
    /\ LET h == History
       IN  h # << >> /\ h[Len(h)].kind = "PortDeclaration"

\* C15: the step that processes a keyword without a remainder, an empty
\* line, or a line whose first token only starts with a keyword or differs
\* from it in case, raises nothing and leaves the current port, the count
\* and the counter table as they were.
C15_UnmatchedLineChangesNothing ==
    [][(AtLine /\ NextLine \in UnmatchedLines)
        => /\ pc' = pc
           /\ raised' = ""
           /\ _port' = _port
           /\ _counter' = _counter
           /\ _result' = _result
      ]_vars

\* C15 witness: "Ports 1 (a)" was processed while another port was current
C15_Witness ==
    /\ InPass
    /\ _port = GigabitEthernet03
    /\ LET lines == Consumed
       IN  /\ Len(lines) = 2
           /\ lines[2] \in UnmatchedLines
           /\ Len(split(lines[2])) = 2
           /\ split(lines[2])[1] = KW_PORT \o << "s" >>

\* C17: during the pass no key leaves the counter table, no counter
\* decreases, and every counter is a non-negative integer.
C17_CountersOnlyGrow ==
    [][InPass
        => /\ \A k \in DOMAIN _result :
                 k \in DOMAIN _result' /\ _result'[k] >= _result[k]
           /\ \A k \in DOMAIN _result' : _result'[k] \in Nat
      ]_vars

\* C17 witness: a table with two keys, one of them counted twice
C17_Witness ==
    /\ InPass
    /\ Cardinality(DOMAIN _result) >= 2
    /\ \E k \in DOMAIN _result : _result[k] = 24

----------------------------------------------------------------------------
(* Calls of command_output_processing one after another *)

\* how a call that finds these lines in cli_command_result ends when nothing
\* was called before it
Alone(lines) ==
    RunLoop(Locals(<< >>, 0, EmptyTable), StripAll(lines))

\* C16: every call of command_output_processing starts with no current port,
\* a zero counter and an empty table, and ends as a call on the same lines
\* does when it is the only one: it returns the same table or raises the
\* same exception, whatever was called before on this or another Device.
C16_EachParseIsIndependent ==
    /\ (pc = "command_output_processing" /\ cli_command_result = call.lines)
          => /\ _port = << >>
             /\ _counter = 0
             /\ _result = EmptyTable
    /\ call.outcome = "returned"
          => Alone(call.lines) = [raised |-> "", table |-> port_counters]
    /\ call.outcome = "raised"
          => Alone(call.lines) = [raised |-> raised, table |-> None]

\* C16 witness: a call that is not the first one has returned a table for
\* lines that begin with a count, after a call on the other Device, which
\* had executed its command, has returned
C16_Witness ==
    /\ cop_calls >= 2
    /\ call.outcome = "returned"
    /\ call.lines # << >>
    /\ IsBpduObservation(strip(Head(call.lines)))
    /\ DOMAIN port_counters.items # {}
    /\ other_device.lifecycle.last_call = "returned"
    /\ other_device.lifecycle.executed

\* a call on a Device on which command_output_processing was already called
\* since its last execute_command
IsSecondCall(c) ==
    c.outcome # "none" /\ c.lifecycle.executed /\ c.lifecycle.last_call # "none"

\* a call on a Device on which execute_command was never called
IsCallBeforeExecute(c) ==
    c.outcome # "none" /\ ~c.lifecycle.executed

\* the call found no lines and, when it has returned, returned an empty table
SeesNoLines(c) ==
    /\ c.lines = << >>
    /\ c.outcome # "raised"
    /\ c.outcome = "returned" => port_counters = Dict(EmptyTable)

====
